---- MODULE Spec2Model ----
(***************************************************************************)
(* A model of the VRRPv3 node of src/vrrp/core.go: the run loop            *)
(* (Run/runOnce/doBackupTasks/doMasterTasks and the become* transitions),  *)
(* the sender and receiver goroutines, the channels between them, and two  *)
(* such nodes exchanging advertisements.                                   *)
(*                                                                         *)
(* Durations and instants are in milliseconds (time.Millisecond == 1).     *)
(* The clock advances in steps of Step ms; a timer fires at the first      *)
(* clock value at or after its deadline.                                   *)
(***************************************************************************)
EXTENDS Integers, Sequences, FiniteSets, TLC

VARIABLES
    now,                  \* time.Now(), ms
    priority,             \* NodeConfig.HAConfig.Priority, per node
    preempt,              \* NodeConfig.Preempt, per node
    state,                \* Node.haStatus.State
    transitions,          \* Node.haStatus.Transitions
    masterDownInterval,   \* Node.masterDownInterval
    lastMasterAdvertTime, \* Node.lastMasterAdvertTime
    recvChannel,          \* Node.recvChannel (buffered, FIFO)
    sendCount,            \* Node.sendCount
    runPc,                \* position of the goroutine executing Run
    runResult,            \* what Run returned: "none" (still running), "nil", "err"
    wakeAt,               \* end of the time.Sleep in becomeShutdown
    senderPc,             \* position of the sendAdvertisements goroutine
    senders,              \* number of sendAdvertisements goroutines alive
    tickAt,               \* next instant the sender's ticker fires
    recvPc,               \* position of the receiveAdvertisements goroutine
    shutdownCall,         \* an external caller of Shutdown(): "none", "blocked", "returned"
    exited,               \* os.Exit(1) was called: the process is gone
    net,                  \* packets on their way to a node's transport
    injected,             \* packets the environment has put on the wire so far
    engineLast,           \* argument of the engine's most recent HAState call
    engineCount,          \* HAState calls since the node's state last changed
    engineErr,            \* whether the most recent HAState call returned an error
    lastHandled,          \* the advertisement the run loop dequeued last, and its verdict
    viaTimeout,           \* the last verdict "become MASTER" in BACKUP came from the timeout
    errFrom,              \* the state in which the run loop received an error, if it did
    shutdownFrom,         \* the state becomeShutdown found, if it ran
    zeroCalls,            \* Send calls that carried priority 0
    afterZero,            \* a Send call was made after a priority-0 Send call
    taskPc,               \* position of the reportStatus and checkConfig goroutines
    failures,             \* their local variable failures
    calls,                \* engine calls (HAUpdate, HAConfig) made since the task's last tick
    reply,                \* what the engine's last HAUpdate / HAConfig call returned
    failoverFrom,         \* the state in which the run loop took reportStatus's Shutdown()
    receiveCount,         \* Node.receiveCount
    lastPkt,              \* the packet the transport read last, and what receive returned
    transportErr          \* the last error conn.Send / conn.Receive returned, and what became of it

vars == <<now, priority, preempt, state, transitions, masterDownInterval,
          lastMasterAdvertTime, recvChannel, sendCount, runPc, runResult, wakeAt,
          senderPc, senders, tickAt, recvPc, shutdownCall, exited, net, injected,
          engineLast, engineCount, engineErr, lastHandled, viaTimeout,
          errFrom, shutdownFrom, zeroCalls, afterZero,
          taskPc, failures, calls, reply, failoverFrom, receiveCount, lastPkt,
          transportErr>>

cfgVars    == <<priority, preempt>>
timerVars  == <<masterDownInterval, lastMasterAdvertTime>>
statusVars == <<state, transitions>>
engineVars == <<engineLast, engineCount, engineErr>>
zeroVars   == <<zeroCalls, afterZero>>
senderVars == <<senderPc, senders, tickAt, sendCount>>
envVars    == <<net, injected, shutdownCall>>
histVars   == <<lastHandled, viaTimeout, errFrom, shutdownFrom>>
taskVars   == <<taskPc, failures, calls, reply, failoverFrom>>
bgVars     == <<taskVars, receiveCount, lastPkt, transportErr>>

----------------------------------------------------------------------------
(* Bounds of the model. *)

\* Clock granularity, ms.
Step == 500
\* The clock stops here, ms.
MaxTime == 4000
\* Packets the environment may put on the wire of a single node.
MaxInject == 2
\* The clock of the node with its background tasks stops here, ms.
TasksMaxTime == 4500
\* Packets the transport under test may read.
MaxPackets == 1
\* Packets a flooding peer may put on the wire of a single node.
MaxFlood == 22
\* The clock of the two-node group stops here, ms.
PairMaxTime == 9000

(* Program constants. *)

\* make(chan *Advertisement, 20)
RecvChannelCap == 20
\* NodeConfig.StatusReportMaxFailures of the modelled nodes
StatusReportMaxFailures == 2
\* NodeConfig.ConfigCheckMaxFailures of the modelled nodes
ConfigCheckMaxFailures == 1
\* time.Sleep(500 * time.Millisecond) in becomeShutdown
ShutdownSleep == 500
\* vrrpVersion<<4 | vrrpAdvertType
vrrpVersionType == 49
\* NodeConfig.MasterAdvertInterval of the modelled nodes, ms
MasterAdvertInterval == 1000
\* HAConfig.VRID of the modelled nodes
VRID == 1
\* uint16 arithmetic wraps at 2^16
Uint16 == 65536
\* the expected number of bytes in the Advertisement struct
vrrpAdvertSize == 8
\* IP protocol 112 (VRRP)
vrrpPort == 112

Nodes == {1, 2}
Peer(n) == 3 - n

HABackup   == "BACKUP"
HAMaster   == "MASTER"
HAShutdown == "SHUTDOWN"
HAError    == "ERROR"
HAUnknown  == "UNKNOWN"

Priorities == {100, 150}

\* No conn.Send or conn.Receive call has returned an error.
NoTransportErr == [at |-> "none", outcome |-> "none"]

NoAdvert == [kind |-> "none"]

\* The goroutines Run starts besides the receiver.
Tasks == {"status", "config"}

\* type Advertisement struct (CountIPAddrs is always 0, Checksum is the transport's)
Advert(vt, vrid, prio, int) ==
    [kind |-> "advert", VersionType |-> vt, VRID |-> vrid, Priority |-> prio, AdvertInt |-> int]

\* What the environment may put on the wire of a single node.
InjectedAdverts ==
    {Advert(vrrpVersionType, VRID, p, 100) : p \in {0, 100, 150}}
    \cup {Advert(33, VRID, 0, 100), Advert(vrrpVersionType, 2, 0, 100)}

Upd(f, n, v) == [f EXCEPT ![n] = v]

----------------------------------------------------------------------------
(* Pure functions of core.go. *)

\* resetMasterDownInterval: the value it stores for priority prio.
MasterDown(prio, advertInterval) ==
    3 * advertInterval + ((256 - prio) * advertInterval) \div 256

\* newAdvertisement
newAdvertisement(n) ==
    Advert(vrrpVersionType, VRID, priority[n], ((MasterAdvertInterval \div 1) \div 10) % Uint16)

\* time.Millisecond * time.Duration(10*advert.AdvertInt): the product is a uint16
AdvertIntDuration(a) == 1 * ((10 * a.AdvertInt) % Uint16)

\* (mutant) the priority-0 case is missing
backupHandleNoRelease(n, a) ==
    IF a.VersionType # vrrpVersionType THEN HABackup
    ELSE IF a.VRID # VRID THEN HABackup
    ELSE IF preempt[n] /\ a.Priority < priority[n] THEN HAMaster
    ELSE HABackup

\* (mutant) the Preempt flag is not consulted
backupHandleAlwaysPreempt(n, a) ==
    IF a.VersionType # vrrpVersionType THEN HABackup
    ELSE IF a.VRID # VRID THEN HABackup
    ELSE IF a.Priority = 0 THEN HAMaster
    ELSE IF a.Priority < priority[n] THEN HAMaster
    ELSE HABackup

\* backupHandleAdvertisement: the state it returns
backupHandleAdvertisement(n, a) ==
    IF a.VersionType # vrrpVersionType THEN HABackup
    ELSE IF a.VRID # VRID THEN HABackup
    ELSE IF a.Priority = 0 THEN HAMaster
    ELSE IF preempt[n] /\ a.Priority < priority[n] THEN HAMaster
    ELSE HABackup

\* backupHandleAdvertisement: whether it reaches the statements after the switch
backupAccepts(n, a) ==
    /\ a.VersionType = vrrpVersionType
    /\ a.VRID = VRID
    /\ a.Priority # 0
    /\ ~(preempt[n] /\ a.Priority < priority[n])

\* (mutant) a higher-priority advertisement is ignored like a lower one
masterHandleNeverYields(n, a) == HAMaster

\* (mutant) >= where the code has >
masterHandleYieldsOnTie(n, a) ==
    IF a.VersionType # vrrpVersionType THEN HAMaster
    ELSE IF a.VRID # VRID THEN HAMaster
    ELSE IF a.Priority >= priority[n] THEN HABackup
    ELSE HAMaster

\* doMasterTasks, case advert := <-n.recvChannel: the state it returns
masterHandleAdvertisement(n, a) ==
    IF a.VersionType # vrrpVersionType THEN HAMaster
    ELSE IF a.VRID # VRID THEN HAMaster
    ELSE IF a.Priority = priority[n] THEN HAMaster
    ELSE IF a.Priority > priority[n] THEN HABackup
    ELSE HAMaster

\* (mutant) lastMasterAdvertTime is set for every advertisement that is not ignored
masterRecordsAnyValid(n, a) ==
    /\ a.VersionType = vrrpVersionType
    /\ a.VRID = VRID

\* doMasterTasks: whether it sets lastMasterAdvertTime
masterAccepts(n, a) ==
    /\ a.VersionType = vrrpVersionType
    /\ a.VRID = VRID
    /\ a.Priority > priority[n]

\* (mutant) HAError is treated like "no change"
runOnceNextSwallowsError(s, newState) ==
    IF s = HABackup THEN
        CASE newState = HAMaster   -> "bm_notify"
          [] newState = HAShutdown -> "bs_notify"
          [] OTHER                 -> "loop"
    ELSE IF s = HAMaster THEN
        CASE newState = HABackup   -> "bb_notify"
          [] newState = HAShutdown -> "bs_notify"
          [] OTHER                 -> "loop"
    ELSE "returned"

\* runOnce: where the run loop goes with the state its tasks returned
\* (mutant) in MASTER, "no change" runs becomeMaster again
runOnceNextRestartsMaster(s, newState) ==
    IF s = HABackup THEN
        CASE newState = HABackup   -> "loop"
          [] newState = HAMaster   -> "bm_notify"
          [] newState = HAShutdown -> "bs_notify"
          [] OTHER                 -> "returned"
    ELSE IF s = HAMaster THEN
        CASE newState = HAMaster   -> "bm_notify"
          [] newState = HABackup   -> "bb_notify"
          [] newState = HAShutdown -> "bs_notify"
          [] OTHER                 -> "returned"
    ELSE "returned"

runOnceNext(s, newState) ==
    IF s = HABackup THEN
        CASE newState = HABackup   -> "loop"
          [] newState = HAMaster   -> "bm_notify"
          [] newState = HAShutdown -> "bs_notify"
          [] OTHER                 -> "returned"
    ELSE IF s = HAMaster THEN
        CASE newState = HAMaster   -> "loop"
          [] newState = HABackup   -> "bb_notify"
          [] newState = HAShutdown -> "bs_notify"
          [] OTHER                 -> "returned"
    ELSE "returned"

\* runOnce: what Run returns when runOnce returns an error
runOnceResult(s, newState) ==
    IF runOnceNext(s, newState) = "returned" THEN "err" ELSE "none"

----------------------------------------------------------------------------
(* The transport of src/ha_net.go.  A byte is a number in 0..255, a []byte *)
(* and a net.IP are sequences of bytes; the nil net.IP is <<>>.            *)

Nil == <<>>

\* The 12-byte prefix of an IPv4 address in its 16-byte form (net.IP).
v4InV6Prefix == <<0, 0, 0, 0, 0, 0, 0, 0, 0, 0, 255, 255>>

\* net.IP.To4
To4(ip) ==
    IF Len(ip) = 4 THEN ip
    ELSE IF Len(ip) = 16 /\ SubSeq(ip, 1, 12) = v4InV6Prefix THEN SubSeq(ip, 13, 16)
    ELSE Nil

\* net.IP.To16
To16(ip) ==
    IF Len(ip) = 4 THEN v4InV6Prefix \o ip
    ELSE IF Len(ip) = 16 THEN ip
    ELSE Nil

\* net.IP.Equal
IPEqual(a, b) == To16(a) # Nil /\ To16(a) = To16(b)

\* The advertisement as the transport marshals it (all six fields).
WireAdvert(vt, vrid, prio, cnt, int, ck) ==
    [VersionType |-> vt, VRID |-> vrid, Priority |-> prio, CountIPAddrs |-> cnt,
     AdvertInt |-> int, Checksum |-> ck]

\* binary.Write(buf, binary.BigEndian, advert)
Encode(a) ==
    <<a.VersionType, a.VRID, a.Priority, a.CountIPAddrs,
      a.AdvertInt \div 256, a.AdvertInt % 256, a.Checksum \div 256, a.Checksum % 256>>

\* binary.Read(reader, binary.BigEndian, advert), of a payload of vrrpAdvertSize bytes
Decode(b) ==
    WireAdvert(b[1], b[2], b[3], b[4], b[5] * 256 + b[6], b[7] * 256 + b[8])

\* The advertisement as the node's run loop reads it.
ToAdvertisement(w) == Advert(w.VersionType, w.VRID, w.Priority, w.AdvertInt)

\* ipChecksum: the first loop and the odd trailing byte (the uint32 sum of the
\* at most 48 words of the 96-byte receive buffer stays below 2^22)
RECURSIVE SumWords(_)
SumWords(b) ==
    IF Len(b) >= 2 THEN (b[1] * 256 + b[2]) + SumWords(SubSeq(b, 3, Len(b)))
    ELSE IF Len(b) = 1 THEN b[1] * 256
    ELSE 0

\* ipChecksum: for sum>>16 != 0 { sum = (sum & 0xffff) + (sum >> 16) }
RECURSIVE Fold(_)
Fold(sum) ==
    IF sum \div 65536 # 0 THEN Fold((sum % 65536) + (sum \div 65536)) ELSE sum

\* (mutant) the folded sum is returned without the one's complement
ipChecksumNoComplement(b) == Fold(SumWords(b))

\* ipChecksum: uint16(^sum)
ipChecksum(b) == 65535 - Fold(SumWords(b))

\* checksum: the pseudo-header it writes before the advertisement; Nil when
\* the addresses are not two IPv4 or two IPv6 addresses
PseudoHeader(srcIP, dstIP) ==
    IF To4(srcIP) # Nil /\ To4(dstIP) # Nil
    THEN To4(srcIP) \o To4(dstIP) \o <<0, vrrpPort, vrrpAdvertSize \div 256, vrrpAdvertSize % 256>>
    ELSE IF To16(srcIP) # Nil /\ To16(dstIP) # Nil
    THEN To16(srcIP) \o To16(dstIP) \o <<0, 0, vrrpAdvertSize \div 256, vrrpAdvertSize % 256>>
             \o <<0, 0, 0>> \o <<vrrpPort>>
    ELSE Nil

\* checksum's error result
ChecksumFailed == -1

\* checksum
checksum(advert, srcIP, dstIP) ==
    IF PseudoHeader(srcIP, dstIP) = Nil THEN ChecksumFailed
    ELSE ipChecksum(PseudoHeader(srcIP, dstIP) \o Encode(advert))

\* send: the bytes it hands to WriteToIP (laddr, raddr are the sender's)
send(advert, laddr, raddr) ==
    IF advert.Checksum = 0
    THEN Encode([advert EXCEPT !.Checksum = checksum(advert, laddr, raddr)])
    ELSE Encode(advert)

\* type packet struct
Packet(src, dst, ttl, payload) == [src |-> src, dst |-> dst, ttl |-> ttl, payload |-> payload]

\* Results that are neither a packet nor an advertisement: an error made with
\* fmt.Errorf, a *net.OpError with ENOPROTOOPT or EPROTO, and (nil, nil).
ReadError == [error |-> TRUE, ignorable |-> FALSE]
ICMPError == [error |-> TRUE, ignorable |-> TRUE]
NoResult == [error |-> FALSE, ignorable |-> FALSE]

IsPacket(r) == "payload" \in DOMAIN r
IsAdvert(r) == "VersionType" \in DOMAIN r
IsError(r) == "error" \in DOMAIN r /\ r.error

\* b[lo:hi] of Go, on a sequence indexed from 1
Slice(b, lo, hi) == SubSeq(b, lo + 1, hi)

\* readIPv4Packet, b being the n bytes Read returned
readIPv4Packet(b) ==
    LET n == Len(b)
        hdrLen == (b[1] % 16) * 4
    IN IF n < 20 THEN ReadError
       ELSE IF b[1] \div 16 # 4 THEN ReadError
       ELSE IF hdrLen > n THEN ReadError
       ELSE Packet(Slice(b, 12, 16), Slice(b, 16, 20), b[9], Slice(b, hdrLen, n))

\* (mutant) the TTL is not looked at
receiveAnyTTL(p, laddr) ==
    IF Len(p.payload) # vrrpAdvertSize THEN NoResult
    ELSE IF IPEqual(p.src, laddr) THEN NoResult
    ELSE IF checksum(Decode(p.payload), p.src, p.dst) # 0 THEN NoResult
    ELSE Decode(p.payload)

\* receive, once readPacket returned the packet p: the advertisement, or
\* NoResult for (nil, nil)
receive(p, laddr) ==
    IF Len(p.payload) # vrrpAdvertSize THEN NoResult
    ELSE IF IPEqual(p.src, laddr) THEN NoResult
    ELSE IF p.ttl # 255 THEN NoResult
    ELSE IF checksum(Decode(p.payload), p.src, p.dst) = ChecksumFailed THEN NoResult
    ELSE IF checksum(Decode(p.payload), p.src, p.dst) # 0 THEN NoResult
    ELSE Decode(p.payload)

\* receive, r being what readPacket returned
receiveOf(r, laddr) ==
    IF IsPacket(r) THEN receive(r, laddr)
    ELSE IF r.ignorable THEN NoResult
    ELSE r

----------------------------------------------------------------------------
(* The state after NewNode, for a given configuration. *)

InitWith(prio, pre) ==
    /\ now = 0
    /\ priority = prio
    /\ preempt = pre
    /\ state = [n \in Nodes |-> HABackup]
    /\ transitions = [n \in Nodes |-> 1]
    /\ masterDownInterval = [n \in Nodes |-> MasterDown(prio[n], MasterAdvertInterval)]
    /\ lastMasterAdvertTime = [n \in Nodes |-> 0]
    /\ recvChannel = [n \in Nodes |-> <<>>]
    /\ sendCount = [n \in Nodes |-> 0]
    /\ runPc = [n \in Nodes |-> "init"]
    /\ runResult = [n \in Nodes |-> "none"]
    /\ wakeAt = [n \in Nodes |-> 0]
    /\ senderPc = [n \in Nodes |-> "none"]
    /\ senders = [n \in Nodes |-> 0]
    /\ tickAt = [n \in Nodes |-> 0]
    /\ recvPc = [n \in Nodes |-> "none"]
    /\ shutdownCall = [n \in Nodes |-> "none"]
    /\ exited = [n \in Nodes |-> FALSE]
    /\ net = [n \in Nodes |-> <<>>]
    /\ injected = 0
    /\ engineLast = [n \in Nodes |-> "none"]
    /\ engineCount = [n \in Nodes |-> 0]
    /\ engineErr = [n \in Nodes |-> FALSE]
    /\ lastHandled = [n \in Nodes |-> [from |-> "none", advert |-> NoAdvert, to |-> "none", timer |-> FALSE]]
    /\ viaTimeout = [n \in Nodes |-> FALSE]
    /\ errFrom = [n \in Nodes |-> "none"]
    /\ shutdownFrom = [n \in Nodes |-> "none"]
    /\ zeroCalls = [n \in Nodes |-> 0]
    /\ afterZero = [n \in Nodes |-> FALSE]
    /\ taskPc = [n \in Nodes |-> [t \in Tasks |-> "none"]]
    /\ failures = [n \in Nodes |-> [t \in Tasks |-> 0]]
    /\ calls = [n \in Nodes |-> [t \in Tasks |-> 0]]
    /\ reply = [n \in Nodes |-> [t \in Tasks |-> "none"]]
    /\ failoverFrom = [n \in Nodes |-> "none"]
    /\ receiveCount = [n \in Nodes |-> 0]
    /\ lastPkt = [sent |-> FALSE, read |-> NoResult, local |-> Nil, result |-> NoResult]
    /\ transportErr = [n \in Nodes |-> NoTransportErr]

----------------------------------------------------------------------------
(* The goroutine executing Run. *)

\* setState
setState(n, s) ==
    IF state[n] # s
    THEN /\ state' = Upd(state, n, s)
         /\ transitions' = Upd(transitions, n, transitions[n] + 1)
         /\ engineCount' = Upd(engineCount, n, 0)
    ELSE UNCHANGED <<state, transitions, engineCount>>

\* engine.HAState(s), which returns an error or nil; the error is only logged
HAState(n, s, err) ==
    /\ engineLast' = Upd(engineLast, n, s)
    /\ engineCount' = Upd(engineCount, n, engineCount[n] + 1)
    /\ engineErr' = Upd(engineErr, n, err)

\* Run: the three go statements
RunStart(n) ==
    /\ ~exited[n]
    /\ runPc[n] = "init"
    /\ runPc' = Upd(runPc, n, "loop")
    /\ recvPc' = Upd(recvPc, n, "recv")
    /\ taskPc' = Upd(taskPc, n, [t \in Tasks |-> "wait"])
    /\ UNCHANGED <<now, cfgVars, failures, calls, reply, failoverFrom, receiveCount, lastPkt,
                   transportErr,
                   statusVars, timerVars, recvChannel, runResult, wakeAt,
                   senderVars, exited, envVars, engineVars, histVars, zeroVars>>

\* Run: the loop condition, and runOnce's switch on n.state()
LoopCheck(n) ==
    /\ ~exited[n]
    /\ runPc[n] = "loop"
    /\ IF state[n] = HAShutdown
       THEN /\ runPc' = Upd(runPc, n, "returned")
            /\ runResult' = Upd(runResult, n, "nil")
       ELSE IF state[n] \in {HABackup, HAMaster}
       THEN /\ runPc' = Upd(runPc, n, "select")
            /\ UNCHANGED runResult
       ELSE /\ runPc' = Upd(runPc, n, "returned")
            /\ runResult' = Upd(runResult, n, "err")
    /\ UNCHANGED <<now, cfgVars, bgVars, statusVars, timerVars, recvChannel, wakeAt,
                   senderVars, recvPc, exited, envVars, engineVars, histVars, zeroVars>>

\* runOnce, once doBackupTasks or doMasterTasks returned newState
Dispatch(n, newState) ==
    /\ runPc' = Upd(runPc, n, runOnceNext(state[n], newState))
    /\ runResult' = Upd(runResult, n, runOnceResult(state[n], newState))

\* doBackupTasks / doMasterTasks: an advertisement was taken from recvChannel
HandleAdvert(n, byTimer) ==
    LET a == Head(recvChannel[n])
        s == state[n]
        newState == IF s = HABackup THEN backupHandleAdvertisement(n, a)
                    ELSE masterHandleAdvertisement(n, a)
    IN /\ recvChannel' = Upd(recvChannel, n, Tail(recvChannel[n]))
       /\ IF s = HABackup /\ backupAccepts(n, a)
          THEN /\ masterDownInterval' =
                     Upd(masterDownInterval, n, MasterDown(priority[n], AdvertIntDuration(a)))
               /\ lastMasterAdvertTime' = Upd(lastMasterAdvertTime, n, now)
          ELSE IF s = HAMaster /\ masterAccepts(n, a)
          THEN /\ lastMasterAdvertTime' = Upd(lastMasterAdvertTime, n, now)
               /\ UNCHANGED masterDownInterval
          ELSE UNCHANGED timerVars
       /\ lastHandled' = Upd(lastHandled, n, [from |-> s, advert |-> a, to |-> newState, timer |-> byTimer])
       /\ viaTimeout' = Upd(viaTimeout, n, FALSE)
       /\ Dispatch(n, newState)

\* doBackupTasks / doMasterTasks: case advert := <-n.recvChannel
DequeueAdvert(n) ==
    /\ ~exited[n]
    /\ runPc[n] = "select"
    /\ recvChannel[n] # <<>>
    /\ HandleAdvert(n, FALSE)
    /\ UNCHANGED <<now, cfgVars, bgVars, statusVars, wakeAt, senderVars, recvPc, exited,
                   envVars, engineVars, errFrom, shutdownFrom, zeroVars>>

\* (mutant) the timer waits one advertisement interval, not masterDownInterval
DeadlineOneInterval(n) == lastMasterAdvertTime[n] + MasterAdvertInterval

\* doBackupTasks: the deadline of time.After(remaining)
Deadline(n) == lastMasterAdvertTime[n] + masterDownInterval[n]

\* (mutant) case <-timeout returns HAMaster without the inner select
TimeoutIgnoresQueue(n) ==
    /\ ~exited[n]
    /\ runPc[n] = "select"
    /\ state[n] = HABackup
    /\ now >= Deadline(n)
    /\ Dispatch(n, HAMaster)
    /\ viaTimeout' = Upd(viaTimeout, n, TRUE)
    /\ UNCHANGED <<recvChannel, timerVars, lastHandled>>
    /\ UNCHANGED <<now, cfgVars, bgVars, statusVars, wakeAt, senderVars, recvPc, exited,
                   envVars, engineVars, errFrom, shutdownFrom, zeroVars>>

\* doBackupTasks: case <-timeout, with its inner select
Timeout(n) ==
    /\ ~exited[n]
    /\ runPc[n] = "select"
    /\ state[n] = HABackup
    /\ now >= Deadline(n)
    /\ IF recvChannel[n] # <<>>
       THEN HandleAdvert(n, TRUE)
       ELSE /\ Dispatch(n, HAMaster)
            /\ viaTimeout' = Upd(viaTimeout, n, TRUE)
            /\ UNCHANGED <<recvChannel, timerVars, lastHandled>>
    /\ UNCHANGED <<now, cfgVars, bgVars, statusVars, wakeAt, senderVars, recvPc, exited,
                   envVars, engineVars, errFrom, shutdownFrom, zeroVars>>

\* doBackupTasks / doMasterTasks: case <-n.shutdownChannel, with Shutdown's send
TakeShutdown(n) ==
    /\ ~exited[n]
    /\ runPc[n] = "select"
    /\ shutdownCall[n] = "blocked"
    /\ shutdownCall' = Upd(shutdownCall, n, "returned")
    /\ Dispatch(n, HAShutdown)
    /\ UNCHANGED <<now, cfgVars, bgVars, statusVars, timerVars, recvChannel, wakeAt, senderVars,
                   recvPc, exited, net, injected, engineVars, histVars, zeroVars>>

\* doBackupTasks / doMasterTasks: case err := <-n.errChannel
TakeError(n) ==
    /\ Dispatch(n, HAError)
    /\ errFrom' = Upd(errFrom, n, state[n])

\* case err := <-n.errChannel, the error being the one queueAdvertisement is blocked sending
TakeQueuedError(n) ==
    /\ ~exited[n]
    /\ runPc[n] = "select"
    /\ recvPc[n] = "postFull"
    /\ recvPc' = Upd(recvPc, n, "recv")
    /\ TakeError(n)
    /\ UNCHANGED <<now, cfgVars, bgVars, statusVars, timerVars, recvChannel, wakeAt, senderVars,
                   exited, envVars, engineVars, lastHandled, viaTimeout, shutdownFrom,
                   zeroVars>>

\* becomeMaster: engine.HAState(seesaw.HAMaster)
BecomeMasterNotify(n, err) ==
    /\ ~exited[n]
    /\ runPc[n] = "bm_notify"
    /\ HAState(n, HAMaster, err)
    /\ runPc' = Upd(runPc, n, "bm_go")
    /\ UNCHANGED <<now, cfgVars, bgVars, statusVars, timerVars, recvChannel, runResult, wakeAt,
                   senderVars, recvPc, exited, envVars, histVars, zeroVars>>

\* becomeMaster: go n.sendAdvertisements(), whose first statement is time.NewTicker
BecomeMasterGo(n) ==
    /\ ~exited[n]
    /\ runPc[n] = "bm_go"
    /\ senderPc' = Upd(senderPc, n, "select")
    /\ senders' = Upd(senders, n, senders[n] + 1)
    /\ tickAt' = Upd(tickAt, n, now + MasterAdvertInterval)
    /\ runPc' = Upd(runPc, n, "bm_set")
    /\ UNCHANGED <<now, cfgVars, bgVars, statusVars, timerVars, recvChannel, runResult, wakeAt,
                   sendCount, recvPc, exited, envVars, engineVars, histVars, zeroVars>>

\* becomeMaster: n.setState(seesaw.HAMaster)
BecomeMasterSet(n) ==
    /\ ~exited[n]
    /\ runPc[n] = "bm_set"
    /\ setState(n, HAMaster)
    /\ runPc' = Upd(runPc, n, "loop")
    /\ UNCHANGED <<now, cfgVars, bgVars, timerVars, recvChannel, runResult, wakeAt, senderVars,
                   recvPc, exited, envVars, engineLast, engineErr, histVars, zeroVars>>

\* (mutant) becomeBackup does not tell the engine
BecomeBackupUnannounced(n, err) ==
    /\ ~exited[n]
    /\ runPc[n] = "bb_notify"
    /\ runPc' = Upd(runPc, n, "bb_stop")
    /\ UNCHANGED <<now, cfgVars, bgVars, statusVars, timerVars, recvChannel, runResult, wakeAt,
                   senderVars, recvPc, exited, envVars, engineVars, histVars, zeroVars>>

\* becomeBackup: engine.HAState(seesaw.HABackup)
BecomeBackupNotify(n, err) ==
    /\ ~exited[n]
    /\ runPc[n] = "bb_notify"
    /\ HAState(n, HABackup, err)
    /\ runPc' = Upd(runPc, n, "bb_stop")
    /\ UNCHANGED <<now, cfgVars, bgVars, statusVars, timerVars, recvChannel, runResult, wakeAt,
                   senderVars, recvPc, exited, envVars, histVars, zeroVars>>

\* (mutant) becomeBackup goes on without stopping the sender
BecomeBackupKeepsSender(n) ==
    /\ ~exited[n]
    /\ runPc[n] = "bb_stop"
    /\ senderPc[n] = "select"
    /\ runPc' = Upd(runPc, n, "bb_set")
    /\ UNCHANGED <<now, cfgVars, bgVars, statusVars, timerVars, recvChannel, runResult, wakeAt,
                   senderVars, recvPc, exited, envVars, engineVars, histVars, zeroVars>>

\* becomeBackup: n.stopSenderChannel <- seesaw.HABackup, received by the sender's
\* case newState := <-n.stopSenderChannel, which stops the ticker and returns
BecomeBackupStop(n) ==
    /\ ~exited[n]
    /\ runPc[n] = "bb_stop"
    /\ senderPc[n] = "select"
    /\ senderPc' = Upd(senderPc, n, "none")
    /\ senders' = Upd(senders, n, senders[n] - 1)
    /\ runPc' = Upd(runPc, n, "bb_set")
    /\ UNCHANGED <<now, cfgVars, bgVars, statusVars, timerVars, recvChannel, runResult, wakeAt,
                   tickAt, sendCount, recvPc, exited, envVars, engineVars, histVars, zeroVars>>

\* becomeBackup: n.setState(seesaw.HABackup)
BecomeBackupSet(n) ==
    /\ ~exited[n]
    /\ runPc[n] = "bb_set"
    /\ setState(n, HABackup)
    /\ runPc' = Upd(runPc, n, "loop")
    /\ UNCHANGED <<now, cfgVars, bgVars, timerVars, recvChannel, runResult, wakeAt, senderVars,
                   recvPc, exited, envVars, engineLast, engineErr, histVars, zeroVars>>

\* (mutant) becomeShutdown signals the sender whatever the state is
BecomeShutdownNotifyAlwaysStops(n, err) ==
    /\ ~exited[n]
    /\ runPc[n] = "bs_notify"
    /\ HAState(n, HAShutdown, err)
    /\ runPc' = Upd(runPc, n, "bs_stop")
    /\ shutdownFrom' = Upd(shutdownFrom, n, state[n])
    /\ UNCHANGED <<now, cfgVars, bgVars, statusVars, timerVars, recvChannel, runResult, wakeAt,
                   senderVars, recvPc, exited, envVars, lastHandled, viaTimeout, errFrom,
                   zeroVars>>

\* becomeShutdown: engine.HAState(seesaw.HAShutdown), then if n.state() == seesaw.HAMaster
BecomeShutdownNotify(n, err) ==
    /\ ~exited[n]
    /\ runPc[n] = "bs_notify"
    /\ HAState(n, HAShutdown, err)
    /\ runPc' = Upd(runPc, n, IF state[n] = HAMaster THEN "bs_stop" ELSE "bs_set")
    /\ shutdownFrom' = Upd(shutdownFrom, n, state[n])
    /\ UNCHANGED <<now, cfgVars, bgVars, statusVars, timerVars, recvChannel, runResult, wakeAt,
                   senderVars, recvPc, exited, envVars, lastHandled, viaTimeout, errFrom,
                   zeroVars>>

\* (mutant) the sender is stopped with HABackup, so it returns without a last Send
BecomeShutdownStopSilently(n) ==
    /\ ~exited[n]
    /\ runPc[n] = "bs_stop"
    /\ senderPc[n] = "select"
    /\ senderPc' = Upd(senderPc, n, "none")
    /\ senders' = Upd(senders, n, senders[n] - 1)
    /\ wakeAt' = Upd(wakeAt, n, now + ShutdownSleep)
    /\ runPc' = Upd(runPc, n, "bs_sleep")
    /\ UNCHANGED <<now, cfgVars, bgVars, statusVars, timerVars, recvChannel, runResult,
                   tickAt, sendCount, recvPc, exited, envVars, engineVars, histVars, zeroVars>>

\* becomeShutdown: n.stopSenderChannel <- seesaw.HAShutdown, received by the sender's
\* case newState := <-n.stopSenderChannel, which stops the ticker; time.Sleep begins
BecomeShutdownStop(n) ==
    /\ ~exited[n]
    /\ runPc[n] = "bs_stop"
    /\ senderPc[n] = "select"
    /\ senderPc' = Upd(senderPc, n, "sendZero")
    /\ wakeAt' = Upd(wakeAt, n, now + ShutdownSleep)
    /\ runPc' = Upd(runPc, n, "bs_sleep")
    /\ UNCHANGED <<now, cfgVars, bgVars, statusVars, timerVars, recvChannel, runResult, senders,
                   tickAt, sendCount, recvPc, exited, envVars, engineVars, histVars, zeroVars>>

\* becomeShutdown: time.Sleep(500 * time.Millisecond) returns
BecomeShutdownWake(n) ==
    /\ ~exited[n]
    /\ runPc[n] = "bs_sleep"
    /\ now >= wakeAt[n]
    /\ runPc' = Upd(runPc, n, "bs_set")
    /\ UNCHANGED <<now, cfgVars, bgVars, statusVars, timerVars, recvChannel, runResult, wakeAt,
                   senderVars, recvPc, exited, envVars, engineVars, histVars, zeroVars>>

\* becomeShutdown: n.setState(seesaw.HAShutdown)
BecomeShutdownSet(n) ==
    /\ ~exited[n]
    /\ runPc[n] = "bs_set"
    /\ setState(n, HAShutdown)
    /\ runPc' = Upd(runPc, n, "loop")
    /\ UNCHANGED <<now, cfgVars, bgVars, timerVars, recvChannel, runResult, wakeAt, senderVars,
                   recvPc, exited, envVars, engineLast, engineErr, histVars, zeroVars>>

----------------------------------------------------------------------------
(* Posting an error the way the sender and the receiver do (the model's    *)
(* actions SenderTick and ReceiveError):                                   *)
(*   select { case n.errChannel <- err: default: os.Exit(1) }              *)
(* errChannel is unbuffered, so the send goes through only when the run    *)
(* loop is waiting in the select of doBackupTasks or doMasterTasks, which  *)
(* then returns HAError.                                                   *)

\* os.Exit(1): the process of node n is gone, and with it its goroutines, its
\* memory and what the model remembers about it; the clock, the configuration
\* and the wire stay.
ExitProcess(n) ==
    /\ exited' = Upd(exited, n, TRUE)
    /\ state' = Upd(state, n, HAUnknown)
    /\ transitions' = Upd(transitions, n, 0)
    /\ masterDownInterval' = Upd(masterDownInterval, n, 0)
    /\ lastMasterAdvertTime' = Upd(lastMasterAdvertTime, n, 0)
    /\ recvChannel' = Upd(recvChannel, n, <<>>)
    /\ sendCount' = Upd(sendCount, n, 0)
    /\ runPc' = Upd(runPc, n, "exited")
    /\ runResult' = Upd(runResult, n, "none")
    /\ wakeAt' = Upd(wakeAt, n, 0)
    /\ senderPc' = Upd(senderPc, n, "none")
    /\ senders' = Upd(senders, n, 0)
    /\ tickAt' = Upd(tickAt, n, 0)
    /\ recvPc' = Upd(recvPc, n, "none")
    /\ shutdownCall' = Upd(shutdownCall, n, "none")
    /\ engineLast' = Upd(engineLast, n, "none")
    /\ engineCount' = Upd(engineCount, n, 0)
    /\ engineErr' = Upd(engineErr, n, FALSE)
    /\ lastHandled' = Upd(lastHandled, n,
                          [from |-> "none", advert |-> NoAdvert, to |-> "none", timer |-> FALSE])
    /\ viaTimeout' = Upd(viaTimeout, n, FALSE)
    /\ errFrom' = Upd(errFrom, n, "none")
    /\ shutdownFrom' = Upd(shutdownFrom, n, "none")
    /\ zeroCalls' = Upd(zeroCalls, n, 0)
    /\ afterZero' = Upd(afterZero, n, FALSE)
    /\ taskPc' = Upd(taskPc, n, [t \in Tasks |-> "none"])
    /\ failures' = Upd(failures, n, [t \in Tasks |-> 0])
    /\ calls' = Upd(calls, n, [t \in Tasks |-> 0])
    /\ reply' = Upd(reply, n, [t \in Tasks |-> "none"])
    /\ failoverFrom' = Upd(failoverFrom, n, "none")
    /\ receiveCount' = Upd(receiveCount, n, 0)
    /\ transportErr' = Upd(transportErr, n, NoTransportErr)
    /\ UNCHANGED <<now, cfgVars, net>>

\* (mutant) errChannel has a buffer: a send on it always goes through
ErrChannelBuffered(n) == TRUE

\* Whether a non-blocking send on errChannel goes through.
ErrChannelHasReceiver(n) == runPc[n] = "select"

\* select { case n.errChannel <- err: default: ... os.Exit(1) } after the call
\* `at' ("tick": the sender's periodic Send, "receive": the receiver's Receive)
\* returned an error, where the run loop is waiting on errChannel
HandError(n, at) ==
    /\ TakeError(n)
    /\ transportErr' = Upd(transportErr, n, [at |-> at, outcome |-> "handed"])

\* the shutdown advertisement's Send returned an error: ltsvlog.Logger.Err only
LogError(n, at) ==
    transportErr' = Upd(transportErr, n, [at |-> at, outcome |-> "logged"])

----------------------------------------------------------------------------
(* The sendAdvertisements goroutine. *)

\* The ticker's next tick after the one consumed at time now (missed ticks are dropped).
NextTick(n) ==
    tickAt[n] + MasterAdvertInterval * (((now - tickAt[n]) \div MasterAdvertInterval) + 1)

\* The transport hands a packet to the peer, or loses it.
Transmit(n, a, deliver) ==
    IF deliver THEN net' = Upd(net, Peer(n), Append(net[Peer(n)], a))
    ELSE UNCHANGED net

\* sendAdvertisements: case <-ticker.C; ok is whether conn.Send returned nil
SenderTick(n, ok, deliver) ==
    /\ ~exited[n]
    /\ senderPc[n] = "select"
    /\ now >= tickAt[n]
    /\ IF ~ok /\ ~ErrChannelHasReceiver(n)
       THEN ExitProcess(n) /\ UNCHANGED <<injected, lastPkt>>
       ELSE /\ tickAt' = Upd(tickAt, n, NextTick(n))
            /\ afterZero' = Upd(afterZero, n, afterZero[n] \/ zeroCalls[n] > 0)
            /\ IF ok
               THEN /\ sendCount' = Upd(sendCount, n, sendCount[n] + 1)
                    /\ Transmit(n, newAdvertisement(n), deliver)
                    /\ UNCHANGED <<runPc, runResult, errFrom>>
               ELSE /\ HandError(n, "tick")
                    /\ UNCHANGED <<sendCount, net>>
            /\ IF ok THEN UNCHANGED transportErr ELSE TRUE
            /\ UNCHANGED <<now, cfgVars, taskVars, receiveCount, lastPkt, statusVars, timerVars, recvChannel, wakeAt,
                           senderPc, senders, recvPc, exited, injected, shutdownCall,
                           engineVars, lastHandled, viaTimeout, shutdownFrom, zeroCalls>>

\* sendAdvertisements: after the stop signal HAShutdown, the advertisement with
\* Priority = 0; a failed Send is only logged; then return
SendShutdownAdvert(n, ok, deliver) ==
    /\ ~exited[n]
    /\ senderPc[n] = "sendZero"
    /\ zeroCalls' = Upd(zeroCalls, n, zeroCalls[n] + 1)
    /\ afterZero' = Upd(afterZero, n, afterZero[n] \/ zeroCalls[n] > 0)
    /\ IF ok
       THEN /\ Transmit(n, [newAdvertisement(n) EXCEPT !.Priority = 0], deliver)
            /\ UNCHANGED transportErr
       ELSE /\ LogError(n, "final")
            /\ UNCHANGED net
    /\ senderPc' = Upd(senderPc, n, "none")
    /\ senders' = Upd(senders, n, senders[n] - 1)
    /\ UNCHANGED <<now, cfgVars, taskVars, receiveCount, lastPkt, statusVars, timerVars, recvChannel, runPc, runResult,
                   wakeAt, tickAt, sendCount, recvPc, exited, injected, shutdownCall,
                   engineVars, histVars>>

----------------------------------------------------------------------------
(* The receiveAdvertisements goroutine. *)

\* (mutant) an advertisement that finds the queue full is dropped silently
queueAdvertisementDrops(n, a) ==
    IF Len(recvChannel[n]) < RecvChannelCap
    THEN /\ recvChannel' = Upd(recvChannel, n, Append(recvChannel[n], a))
         /\ UNCHANGED recvPc
    ELSE UNCHANGED <<recvChannel, recvPc>>

\* queueAdvertisement: the send on recvChannel, or else the blocking send on errChannel
queueAdvertisement(n, a) ==
    IF Len(recvChannel[n]) < RecvChannelCap
    THEN /\ recvChannel' = Upd(recvChannel, n, Append(recvChannel[n], a))
         /\ UNCHANGED recvPc
    ELSE /\ recvPc' = Upd(recvPc, n, "postFull")
         /\ UNCHANGED recvChannel

\* receiveAdvertisements: conn.Receive returned the advertisement the peer sent
ReceiveAdvert(n) ==
    /\ ~exited[n]
    /\ recvPc[n] = "recv"
    /\ net[n] # <<>>
    /\ net' = Upd(net, n, Tail(net[n]))
    /\ receiveCount' = Upd(receiveCount, n, receiveCount[n] + 1)
    /\ queueAdvertisement(n, Head(net[n]))
    /\ UNCHANGED <<now, cfgVars, taskVars, lastPkt, transportErr, statusVars, timerVars,
                   runPc, runResult, wakeAt,
                   senderVars, exited, injected, shutdownCall, engineVars, histVars,
                   zeroVars>>

\* receiveAdvertisements: conn.Receive returned an advertisement a that the
\* environment put on the wire
ReceiveFrom(n, a, max) ==
    /\ ~exited[n]
    /\ recvPc[n] = "recv"
    /\ injected < max
    /\ injected' = injected + 1
    /\ receiveCount' = Upd(receiveCount, n, receiveCount[n] + 1)
    /\ queueAdvertisement(n, a)
    /\ UNCHANGED <<now, cfgVars, taskVars, lastPkt, transportErr, statusVars, timerVars,
                   runPc, runResult, wakeAt,
                   senderVars, exited, net, shutdownCall, engineVars, histVars,
                   zeroVars>>

ReceiveInjected(n, a) == ReceiveFrom(n, a, MaxInject)

\* What a flooding peer sends: valid advertisements of priority 120.
FloodAdvert == Advert(vrrpVersionType, VRID, 120, 100)

\* receiveAdvertisements: conn.Receive returned an advertisement of the flood
ReceiveFlood(n) == ReceiveFrom(n, FloodAdvert, MaxFlood)

\* receiveAdvertisements: conn.Receive, which is receive on what readPacket
\* returned (r), at a connection whose local address is laddr, and what the
\* loop does with its result; sent tells that r is a packet the peer's send made
Deliver(n, sent, r, laddr) ==
    LET res == receiveOf(r, laddr)
    IN /\ ~exited[n]
       /\ recvPc[n] = "recv"
       /\ injected < MaxPackets
       /\ injected' = injected + 1
       /\ lastPkt' = [sent |-> sent, read |-> r, local |-> laddr, result |-> res]
       /\ IF IsError(res)
          THEN IF ErrChannelHasReceiver(n)
               THEN /\ HandError(n, "receive")
                    /\ UNCHANGED <<now, cfgVars, taskVars, receiveCount, statusVars, timerVars,
                                   recvChannel, wakeAt, senderVars, recvPc, exited, net,
                                   shutdownCall, engineVars, lastHandled, viaTimeout,
                                   shutdownFrom, zeroVars>>
               ELSE ExitProcess(n)
          ELSE IF IsAdvert(res)
          THEN /\ receiveCount' = Upd(receiveCount, n, receiveCount[n] + 1)
               /\ queueAdvertisement(n, ToAdvertisement(res))
               /\ UNCHANGED <<now, cfgVars, taskVars, transportErr, statusVars, timerVars,
                              runPc, runResult, wakeAt, senderVars, exited, net, shutdownCall,
                              engineVars, histVars, zeroVars>>
          ELSE UNCHANGED <<now, cfgVars, taskVars, receiveCount, transportErr, statusVars, timerVars,
                           recvChannel, runPc, runResult, wakeAt, senderVars, recvPc, exited,
                           net, shutdownCall, engineVars, histVars, zeroVars>>

\* The header of an IPv4 datagram without options, as Read returns it before the payload.
MakeIPv4(b0, ttl, src, dst, payload) ==
    <<b0, 0, (20 + Len(payload)) \div 256, (20 + Len(payload)) % 256, 0, 0, 0, 0,
      ttl, vrrpPort, 0, 0>> \o src \o dst \o payload

\* readIPv4Packet on the datagram raw, then receive
ReadIPv4(n, raw, sent, laddr) == Deliver(n, sent, readIPv4Packet(raw), laddr)

\* readIPv6Packet, which takes the source from ReadMsgIP, hop limit and
\* destination from the control messages and the payload from the buffer,
\* then receive
ReadIPv6(n, src, dst, hops, payload, sent, laddr) ==
    Deliver(n, sent, Packet(src, dst, hops, payload), laddr)

\* readPacket returned a *net.OpError with ENOPROTOOPT or EPROTO
ReadICMPError(n, laddr) == Deliver(n, FALSE, ICMPError, laddr)

\* receiveAdvertisements: conn.Receive returned an error
ReceiveError(n) ==
    /\ ~exited[n]
    /\ recvPc[n] = "recv"
    /\ IF ErrChannelHasReceiver(n)
       THEN /\ HandError(n, "receive")
            /\ UNCHANGED <<now, cfgVars, taskVars, receiveCount, lastPkt, statusVars, timerVars, recvChannel, wakeAt,
                           senderVars, recvPc, exited, envVars, engineVars, lastHandled,
                           viaTimeout, shutdownFrom, zeroVars>>
       ELSE ExitProcess(n) /\ UNCHANGED <<injected, lastPkt>>

----------------------------------------------------------------------------
(* The reportStatus and checkConfig goroutines.  Their tickers and retry   *)
(* delays are configuration the model leaves open: a tick or the end of a  *)
(* sleep may come at any moment.                                           *)

Upd2(f, n, t, v) == [f EXCEPT ![n][t] = v]

\* StatusReportMaxFailures / ConfigCheckMaxFailures
MaxFailures(t) == IF t = "status" THEN StatusReportMaxFailures ELSE ConfigCheckMaxFailures

\* Engine replies: an error, a plain success, or a success that asks for
\* something (HAUpdate: failover = true; HAConfig: a config that is not Equal
\* to n.HAConfig).
Replies == {"err", "ok", "flag"}

\* (mutant) checkConfig does not compare the configuration it fetched
AfterReplyNoCompare(n, t, r) ==
    IF t = "status"
    THEN IF r = "flag" /\ state[n] = HAMaster THEN "shutdown" ELSE "wait"
    ELSE "wait"

\* Where the task goes once the engine call succeeded: reportStatus tests
\* failover && n.state() == HAMaster, checkConfig tests !cfg.Equal(&n.HAConfig).
AfterReply(n, t, r) ==
    IF t = "status"
    THEN IF r = "flag" /\ state[n] = HAMaster THEN "shutdown" ELSE "wait"
    ELSE IF r = "flag" THEN "postChanged" ELSE "wait"

\* A tick of the task's ticker: failures := 0 and the init statement of the
\* for loop, the engine call, which returns r; on success the test after the loop.
TaskTick(n, t, r) ==
    /\ ~exited[n]
    /\ taskPc[n][t] = "wait"
    /\ failures' = Upd2(failures, n, t, 0)
    /\ calls' = Upd2(calls, n, t, 1)
    /\ reply' = Upd2(reply, n, t, r)
    /\ taskPc' = Upd2(taskPc, n, t, IF r = "err" THEN "failed" ELSE AfterReply(n, t, r))
    /\ UNCHANGED <<now, cfgVars, failoverFrom, receiveCount, lastPkt,
                   transportErr, statusVars, timerVars,
                   recvChannel, runPc, runResult, wakeAt, senderVars, recvPc, exited,
                   envVars, engineVars, histVars, zeroVars>>

\* One turn of the for loop while err != nil: the loop has no post statement
\* and its body assigns neither err nor failover, so the condition is tested
\* on the err of the init statement; failures++, then give up or sleep.
TaskRetry(n, t) ==
    /\ ~exited[n]
    /\ taskPc[n][t] = "failed"
    /\ failures' = Upd2(failures, n, t, failures[n][t] + 1)
    /\ taskPc' = Upd2(taskPc, n, t,
                      IF failures[n][t] + 1 > MaxFailures(t) THEN "postGiveUp" ELSE "failed")
    /\ UNCHANGED <<now, cfgVars, calls, reply, failoverFrom, receiveCount, lastPkt,
                   transportErr,
                   statusVars, timerVars, recvChannel, runPc, runResult, wakeAt,
                   senderVars, recvPc, exited, envVars, engineVars, histVars, zeroVars>>

\* n.errChannel <- ... of a task (a blocking send), received by the run loop's
\* case err := <-n.errChannel; after "giving up" the task returns, after
\* "HAConfig has changed" checkConfig waits for its next tick.
TakeTaskError(n, t) ==
    /\ ~exited[n]
    /\ runPc[n] = "select"
    /\ taskPc[n][t] \in {"postGiveUp", "postChanged"}
    /\ taskPc' = Upd2(taskPc, n, t, IF taskPc[n][t] = "postGiveUp" THEN "done" ELSE "wait")
    /\ TakeError(n)
    /\ UNCHANGED <<now, cfgVars, failures, calls, reply, failoverFrom, receiveCount, lastPkt,
                   transportErr,
                   statusVars, timerVars, recvChannel, wakeAt, senderVars, recvPc, exited,
                   envVars, engineVars, lastHandled, viaTimeout, shutdownFrom, zeroVars>>

\* reportStatus's n.Shutdown(), received by the run loop's case <-n.shutdownChannel
TakeFailoverShutdown(n) ==
    /\ ~exited[n]
    /\ runPc[n] = "select"
    /\ taskPc[n]["status"] = "shutdown"
    /\ taskPc' = Upd2(taskPc, n, "status", "wait")
    /\ failoverFrom' = Upd(failoverFrom, n, state[n])
    /\ Dispatch(n, HAShutdown)
    /\ UNCHANGED <<now, cfgVars, failures, calls, reply, receiveCount, lastPkt,
                   transportErr, statusVars,
                   timerVars, recvChannel, wakeAt, senderVars, recvPc, exited, envVars,
                   engineVars, histVars, zeroVars>>

----------------------------------------------------------------------------
(* The environment. *)

\* Shutdown(): n.shutdownChannel <- true begins, while Run is executing
CallShutdown(n) ==
    /\ ~exited[n]
    /\ runPc[n] \notin {"init", "returned"}
    /\ shutdownCall[n] = "none"
    /\ shutdownCall' = Upd(shutdownCall, n, "blocked")
    /\ UNCHANGED <<now, cfgVars, bgVars, statusVars, timerVars, recvChannel, runPc, runResult,
                   wakeAt, senderVars, recvPc, exited, net, injected, engineVars,
                   histVars, zeroVars>>

\* The run loop is between two suspension points: these steps take no time.
Instant(n) == runPc[n] \in {"loop", "bm_go", "bm_set", "bb_set", "bs_set"}

\* Time passes, while some process is alive.
Tick(max) ==
    /\ now + Step <= max
    /\ \A n \in Nodes : ~Instant(n)
    /\ \E n \in Nodes : runPc[n] \notin {"init", "returned", "exited"} \/ senderPc[n] # "none"
    /\ now' = now + Step
    /\ UNCHANGED <<cfgVars, bgVars, statusVars, timerVars, recvChannel, runPc, runResult,
                   wakeAt, senderVars, recvPc, exited, envVars, engineVars, histVars,
                   zeroVars>>

----------------------------------------------------------------------------
(* One node in an arbitrary environment: any validated packet may arrive at *)
(* any time, the transport may fail, the engine may fail, Shutdown may be   *)
(* called, and every suspension point may take any time.                    *)

Init ==
    \E p \in Priorities, pre \in BOOLEAN :
        InitWith([n \in Nodes |-> p], [n \in Nodes |-> pre])

Next ==
    \/ RunStart(1)
    \/ LoopCheck(1)
    \/ DequeueAdvert(1)
    \/ Timeout(1)
    \/ TakeShutdown(1)
    \/ \E err \in BOOLEAN : BecomeMasterNotify(1, err)
    \/ BecomeMasterGo(1)
    \/ BecomeMasterSet(1)
    \/ \E err \in BOOLEAN : BecomeBackupNotify(1, err)
    \/ BecomeBackupStop(1)
    \/ BecomeBackupSet(1)
    \/ \E err \in BOOLEAN : BecomeShutdownNotify(1, err)
    \/ BecomeShutdownStop(1)
    \/ BecomeShutdownWake(1)
    \/ BecomeShutdownSet(1)
    \/ \E ok \in BOOLEAN : SenderTick(1, ok, FALSE)
    \/ \E ok \in BOOLEAN : SendShutdownAdvert(1, ok, FALSE)
    \/ \E a \in InjectedAdverts : ReceiveInjected(1, a)
    \/ ReceiveError(1)
    \/ CallShutdown(1)
    \/ Tick(MaxTime)

Spec == Init /\ [][Next]_vars

----------------------------------------------------------------------------
(* Fairness: each goroutine that can take a step eventually takes it, and  *)
(* time does not stop while the clock is below its bound.                  *)

SilentLoop(n) ==
    \/ RunStart(n)
    \/ LoopCheck(n)
    \/ Timeout(n)
    \/ \E err \in BOOLEAN : BecomeMasterNotify(n, err)
    \/ BecomeMasterGo(n)
    \/ BecomeMasterSet(n)

RunLoop(n) ==
    \/ SilentLoop(n)
    \/ DequeueAdvert(n)
    \/ \E err \in BOOLEAN : BecomeBackupNotify(n, err)
    \/ BecomeBackupStop(n)
    \/ BecomeBackupSet(n)

----------------------------------------------------------------------------
(* One node whose peer is silent: nothing arrives, nobody calls Shutdown,  *)
(* the transport and the background tasks raise no error.                  *)

NextSilent ==
    \/ SilentLoop(1)
    \/ SenderTick(1, TRUE, FALSE)
    \/ Tick(PairMaxTime)

SpecSilent ==
    /\ Init
    /\ [][NextSilent]_vars
    /\ WF_vars(SilentLoop(1))
    /\ WF_vars(SenderTick(1, TRUE, FALSE))
    /\ WF_vars(Tick(PairMaxTime))

----------------------------------------------------------------------------
(* Two nodes, priorities 150 and 100, started together, exchanging their   *)
(* advertisements over a reliable transport: every packet sent is received *)
(* and handled before the clock advances.  Nobody calls Shutdown, and the  *)
(* transport and the background tasks raise no error.                      *)

InitPair ==
    \E pre \in [Nodes -> BOOLEAN] :
        InitWith([n \in Nodes |-> IF n = 1 THEN 150 ELSE 100], pre)

PairStep ==
    \E n \in Nodes :
        \/ RunLoop(n)
        \/ SenderTick(n, TRUE, TRUE)
        \/ ReceiveAdvert(n)

NextPair ==
    \/ PairStep
    \/ (~ENABLED PairStep) /\ Tick(PairMaxTime)

SpecPair == InitPair /\ [][NextPair]_vars /\ WF_vars(NextPair)

----------------------------------------------------------------------------
(* One node whose peer floods it with advertisements faster than the run   *)
(* loop takes them.  Nobody calls Shutdown and nothing else raises an      *)
(* error; no time passes during the flood.                                 *)

FloodLoop(n) ==
    \/ RunStart(n)
    \/ LoopCheck(n)
    \/ DequeueAdvert(n)
    \/ TakeQueuedError(n)
    \/ \E err \in BOOLEAN : BecomeMasterNotify(n, err)
    \/ BecomeMasterGo(n)
    \/ BecomeMasterSet(n)

NextFlood ==
    \/ FloodLoop(1)
    \/ ReceiveFlood(1)

SpecFlood == Init /\ [][NextFlood]_vars /\ WF_vars(FloodLoop(1))

----------------------------------------------------------------------------
(* One node with its status reporter and its config checker, an engine     *)
(* that may fail, ask for a failover or hand out another configuration,    *)
(* and a peer of higher priority that may advertise.                       *)

\* What the peer of higher priority sends.
PeerAdvert == Advert(vrrpVersionType, VRID, 200, 100)

NextTasks ==
    \/ RunLoop(1)
    \/ \E err \in BOOLEAN : BecomeShutdownNotify(1, err)
    \/ BecomeShutdownStop(1)
    \/ BecomeShutdownWake(1)
    \/ BecomeShutdownSet(1)
    \/ SenderTick(1, TRUE, FALSE)
    \/ SendShutdownAdvert(1, TRUE, FALSE)
    \/ ReceiveInjected(1, PeerAdvert)
    \/ \E t \in Tasks, r \in Replies : TaskTick(1, t, r)
    \/ \E t \in Tasks : TaskRetry(1, t)
    \/ \E t \in Tasks : TakeTaskError(1, t)
    \/ TakeFailoverShutdown(1)
    \/ Tick(TasksMaxTime)

SpecTasks == Init /\ [][NextTasks]_vars

----------------------------------------------------------------------------
(* One node with a silent peer and its config checker; the engine may fail *)
(* or hand out another configuration.  Nobody calls Shutdown.  The run     *)
(* loop, when it can take a step, eventually takes one.                    *)

ConfigLoop(n) ==
    \/ SilentLoop(n)
    \/ TakeTaskError(n, "config")

NextConfig ==
    \/ ConfigLoop(1)
    \/ SenderTick(1, TRUE, FALSE)
    \/ \E r \in Replies : TaskTick(1, "config", r)
    \/ TaskRetry(1, "config")
    \/ Tick(TasksMaxTime)

SpecConfig == Init /\ [][NextConfig]_vars /\ WF_vars(ConfigLoop(1))

----------------------------------------------------------------------------
(* One node reading from its transport: packets its peer's send made, for  *)
(* the four kinds of connection, and IPv4 datagrams that differ from a     *)
(* good one in one respect.  No time passes, so the run loop is followed   *)
(* up to the first advertisement it handles.                               *)

Local4 == <<10, 0, 0, 2>>
Peers4 == {<<10, 0, 0, 1>>, <<192, 168, 255, 254>>}
Mcast4 == <<224, 0, 0, 18>>
Local6 == <<254, 128, 0, 0, 0, 0, 0, 0, 0, 0, 0, 0, 0, 0, 0, 2>>
Peers6 == {<<254, 128, 0, 0, 0, 0, 0, 0, 0, 0, 0, 0, 0, 0, 0, 1>>,
           <<32, 1, 13, 184, 255, 255, 255, 255, 255, 255, 255, 255, 255, 255, 255, 254>>}
Mcast6 == <<255, 2, 0, 0, 0, 0, 0, 0, 0, 0, 0, 0, 0, 0, 0, 18>>

\* (source, destination) of the peer's connection, unicast or multicast.
EndpointPairs4 == Peers4 \X {Local4, Mcast4}
EndpointPairs6 == Peers6 \X {Local6, Mcast6}

\* What the peer's node hands to send: newAdvertisement, or the shutdown advertisement.
SentAdverts ==
    {WireAdvert(vrrpVersionType, VRID, p, 0, i, 0) : p \in {0, 100, 255}, i \in {100, 65535}}

\* A good payload, and payloads that differ from it.
GoodPayload == send(WireAdvert(vrrpVersionType, VRID, 255, 0, 100, 0), <<10, 0, 0, 1>>, Local4)
FlipByte(b, i) == [b EXCEPT ![i] = IF b[i] % 2 = 0 THEN b[i] + 1 ELSE b[i] - 1]
BadPayloads ==
    {FlipByte(GoodPayload, i) : i \in 1..vrrpAdvertSize}
    \cup {SubSeq(GoodPayload, 1, 7), GoodPayload \o <<0>>}

\* IPv4 datagrams: the good one; TTL 254; sent by the node itself; a bad
\* payload; and malformed ones: IP version 6, header length 60 > 28, header
\* length 0, and a read of 12 bytes.
RawDatagrams ==
    {MakeIPv4(69, ttl, <<10, 0, 0, 1>>, Local4, GoodPayload) : ttl \in {255, 254, 0}}
    \cup {MakeIPv4(69, 255, Local4, Local4, send(WireAdvert(vrrpVersionType, VRID, 255, 0, 100, 0), Local4, Local4))}
    \cup {MakeIPv4(69, 255, <<10, 0, 0, 1>>, Local4, b) : b \in BadPayloads}
    \cup {MakeIPv4(b0, 255, <<10, 0, 0, 1>>, Local4, GoodPayload) : b0 \in {101, 79, 64}}
    \cup {SubSeq(MakeIPv4(69, 255, <<10, 0, 0, 1>>, Local4, GoodPayload), 1, 12)}

TransportLoop(n) ==
    \/ RunStart(n)
    \/ LoopCheck(n)
    \/ DequeueAdvert(n)
    \/ \E err \in BOOLEAN : BecomeMasterNotify(n, err)
    \/ BecomeMasterGo(n)
    \/ BecomeMasterSet(n)

NextTransport ==
    \/ TransportLoop(1)
    \/ \E raw \in RawDatagrams : ReadIPv4(1, raw, FALSE, Local4)
    \/ \E a \in SentAdverts, e \in EndpointPairs4 :
           ReadIPv4(1, MakeIPv4(69, 255, e[1], e[2], send(a, e[1], e[2])), TRUE, Local4)
    \/ \E a \in SentAdverts, e \in EndpointPairs6 :
           ReadIPv6(1, e[1], e[2], 255, send(a, e[1], e[2]), TRUE, Local6)
    \/ \E hops \in {254, 255} :
           ReadIPv6(1, Local6, Mcast6, hops,
                    send(WireAdvert(vrrpVersionType, VRID, 255, 0, 100, 0), Local6, Mcast6),
                    FALSE, Local6)
    \/ ReadICMPError(1, Local4)

SpecTransport == Init /\ [][NextTransport]_vars

----------------------------------------------------------------------------
(* One BACKUP node hearing a master of higher priority whose advertisements *)
(* carry any advertisement interval.  No time passes.                       *)

\* Advertisement intervals on the wire, in centiseconds.
AdvertInts == {0, 1, 100, 6553, 6554, 65535}

IntervalAdverts == {Advert(vrrpVersionType, VRID, 200, i) : i \in AdvertInts}

NextInterval ==
    \/ RunStart(1)
    \/ LoopCheck(1)
    \/ DequeueAdvert(1)
    \/ \E a \in IntervalAdverts : ReceiveInjected(1, a)

SpecInterval == Init /\ [][NextInterval]_vars

----------------------------------------------------------------------------
(* Vocabulary of the properties. *)

\* An advertisement the run loop does not ignore: version_type 0x31 and the node's VRID.
ValidFor(a) == a.VersionType = vrrpVersionType /\ a.VRID = VRID

\* This step is the run loop of n taking the head of its receive queue.
Dequeues(n) ==
    /\ runPc[n] = "select"
    /\ recvChannel[n] # <<>>
    /\ recvChannel'[n] = Tail(recvChannel[n])

InBecomeMaster(n) == runPc[n] \in {"bm_notify", "bm_go", "bm_set"}
InBecomeBackup(n) == runPc[n] \in {"bb_notify", "bb_stop", "bb_set"}

----------------------------------------------------------------------------
\* C1: if Shutdown() is called while Run is executing then, whatever the
\* interleaving, the Shutdown() call returns, the node's state becomes
\* SHUTDOWN and Run returns nil.  Stated on the moment Run has returned: a
\* Shutdown() call made while Run was executing has returned by then, the
\* state is SHUTDOWN and the result is nil.
C1_ShutdownCompletes ==
    \A n \in Nodes :
        (runPc[n] = "returned" /\ shutdownCall[n] # "none")
            => /\ shutdownCall[n] = "returned"
               /\ state[n] = HAShutdown
               /\ runResult[n] = "nil"

\* C2 as stated: once the run loop has received an error from the error
\* channel, the node's state is ERROR and Run has returned a non-nil error.
C2_StateBecomesError ==
    \A n \in Nodes :
        errFrom[n] # "none" => (state[n] = HAError /\ runResult[n] = "err")

\* C2 as amended: once the run loop, in BACKUP or in MASTER, has received an
\* error from the error channel, Run has returned a non-nil error and the
\* node's state is still the one it had (BACKUP or MASTER), never ERROR.
C2_ErrorEndsRun ==
    \A n \in Nodes :
        errFrom[n] # "none"
            => /\ runPc[n] = "returned"
               /\ runResult[n] = "err"
               /\ errFrom[n] \in {HABackup, HAMaster}
               /\ state[n] = errFrom[n]

\* C2 witness: the run loop received an error while MASTER.
C2_Witness == errFrom[1] = HAMaster /\ runResult[1] = "err" /\ state[1] = HAMaster

\* C3: two peers with the same VRID exchanging advertisements are never both
\* in MASTER state.
C3_NeverTwoMasters == ~(state[1] = HAMaster /\ state[2] = HAMaster)

\* C4: nodes of priorities 150 and 100 that start together in BACKUP, with
\* reliable delivery, no shutdown and no error, eventually reach and keep
\* "the 150 node is MASTER and the 100 node is BACKUP", whatever preempt is.
C4_HigherPriorityWins == <>[](state[1] = HAMaster /\ state[2] = HABackup)

\* C4 witness: node 1 is MASTER and has sent three advertisements, node 2 went
\* back to BACKUP on one of them and keeps accepting them.
C4_Witness ==
    /\ state[1] = HAMaster /\ state[2] = HABackup
    /\ sendCount[1] >= 3
    /\ transitions[2] = 3
    /\ lastHandled[2].from = HABackup /\ lastHandled[2].advert.Priority = priority[1]
    /\ lastMasterAdvertTime[2] > 0

\* C5: a BACKUP node whose receive queue stays empty and which gets no
\* shutdown request and no error eventually becomes MASTER, and whenever it
\* has left BACKUP for MASTER the deadline lastMasterAdvertTime +
\* masterDownInterval has passed.
C5_SilenceLeadsToMaster ==
    /\ <>(state[1] = HAMaster)
    /\ [](\A n \in Nodes :
            (InBecomeMaster(n) \/ state[n] = HAMaster)
                => /\ viaTimeout[n]
                   /\ now >= lastMasterAdvertTime[n] + masterDownInterval[n])

\* C5 witness: a priority-100 node became MASTER by timeout, its queue empty,
\* at the first clock value past 3609 ms.
C5_Witness ==
    /\ state[1] = HAMaster /\ viaTimeout[1] /\ priority[1] = 100
    /\ recvChannel[1] = <<>> /\ lastHandled[1].from = "none"
    /\ masterDownInterval[1] = 3609
    /\ now >= 3609 /\ now < 3609 + Step

\* C6: a BACKUP node that dequeues an advertisement with version_type 0x31,
\* its own VRID and priority 0 goes to becomeMaster on that advertisement,
\* whatever preempt is and whether or not the master-down timer has expired;
\* with priority 0 but another VRID or version_type the verdict is BACKUP, and
\* the node gets to MASTER afterwards only through the timeout.
C6_PriorityZeroRelease ==
    \A n \in Nodes :
        LET h == lastHandled[n] IN
        (h.from = HABackup /\ h.advert.Priority = 0)
            => IF ValidFor(h.advert)
               THEN /\ h.to = HAMaster
                    /\ InBecomeMaster(n) \/ state[n] # HABackup
               ELSE /\ h.to = HABackup
                    /\ (InBecomeMaster(n) \/ state[n] = HAMaster) => viaTimeout[n]

\* C6 witness: preempt is off, the timer has not expired, and the node is in
\* becomeMaster because of a priority-0 advertisement it took in BACKUP.
C6_Witness ==
    /\ ~preempt[1] /\ state[1] = HABackup /\ runPc[1] = "bm_set"
    /\ lastHandled[1].from = HABackup /\ lastHandled[1].advert.Priority = 0
    /\ ValidFor(lastHandled[1].advert) /\ ~lastHandled[1].timer
    /\ now < lastMasterAdvertTime[1] + masterDownInterval[1]

\* C7: a BACKUP node that dequeues a valid advertisement whose priority is
\* non-zero and lower than its own goes to becomeMaster if preempt is set;
\* if preempt is not set it stays BACKUP and lastMasterAdvertTime becomes now.
C7_PreemptDecides ==
    /\ [][\A n \in Nodes :
            (/\ Dequeues(n)
             /\ state[n] = HABackup
             /\ ValidFor(Head(recvChannel[n]))
             /\ Head(recvChannel[n]).Priority # 0
             /\ Head(recvChannel[n]).Priority < priority[n])
                => IF preempt[n]
                   THEN runPc'[n] = "bm_notify"
                   ELSE /\ runPc'[n] = "loop"
                        /\ state'[n] = HABackup
                        /\ lastMasterAdvertTime'[n] = now]_vars
    /\ [](\A n \in Nodes :
            LET h == lastHandled[n] IN
            (/\ h.from = HABackup /\ ValidFor(h.advert)
             /\ h.advert.Priority # 0 /\ h.advert.Priority < priority[n]
             /\ preempt[n])
                => /\ h.to = HAMaster
                   /\ InBecomeMaster(n) \/ state[n] # HABackup)

\* C7 witness: preempt off, own priority 150, an advertisement of priority 100
\* was taken in BACKUP at a time after 0; the node is BACKUP and the time of
\* the last master advertisement is that time.
C7_Witness ==
    /\ ~preempt[1] /\ priority[1] = 150 /\ state[1] = HABackup /\ runPc[1] = "loop"
    /\ lastHandled[1].from = HABackup /\ lastHandled[1].advert.Priority = 100
    /\ ValidFor(lastHandled[1].advert)
    /\ lastMasterAdvertTime[1] = now /\ now > 0

C10_EngineToldOnceBefore ==
    [][\A n \in Nodes :
        /\ (state'[n] # state[n] /\ ~exited'[n])
              => /\ state'[n] \in {HAMaster, HABackup, HAShutdown}
                 /\ engineLast[n] = state'[n]
                 /\ engineCount[n] = 1
        /\ engineCount'[n] > engineCount[n]
              => /\ engineLast'[n] \in {HAMaster, HABackup, HAShutdown}
                 /\ runPc'[n] = (CASE engineLast'[n] = HAMaster -> "bm_go"
                                   [] engineLast'[n] = HABackup -> "bb_stop"
                                   [] engineLast'[n] = HAShutdown ->
                                        IF state[n] = HAMaster THEN "bs_stop" ELSE "bs_set")
       ]_vars

\* C10 witness: the node's state became BACKUP although the engine's
\* HAState(BACKUP) had returned an error.
C10_Witness ==
    /\ state[1] = HABackup /\ transitions[1] = 3
    /\ engineLast[1] = HABackup /\ engineErr[1] /\ engineCount[1] = 0

\* This step is the receiver of n obtaining an advertisement from the transport.
Obtains(n) == receiveCount'[n] = receiveCount[n] + 1

\* C11: the receive queue never holds more than 20 advertisements; when the
\* receiver obtains an advertisement while the queue holds 20, the queue is
\* left as it is and the receiver posts an error on the error channel; and
\* once the receiver is posting that error, Run returns a non-nil error.
C11_OverflowIsFatal ==
    /\ [](\A n \in Nodes : Len(recvChannel[n]) <= RecvChannelCap)
    /\ [][\A n \in Nodes :
            (Obtains(n) /\ Len(recvChannel[n]) = RecvChannelCap)
                => (recvChannel'[n] = recvChannel[n] /\ recvPc'[n] = "postFull")]_vars
    /\ [](recvPc[1] = "postFull" => <>(runResult[1] = "err"))

\* C11 witness: the 21st advertisement found 20 in the queue, and Run returned
\* the receiver's error.
C11_Witness ==
    /\ receiveCount[1] = RecvChannelCap + 1 /\ Len(recvChannel[1]) = RecvChannelCap
    /\ runResult[1] = "err" /\ errFrom[1] = HABackup

\* C12: in the status reporter and in the config checker every failure
\* counted is a failed engine call (a failed call is followed by another
\* call), and the task gives up, posting a fatal error, only when the engine
\* has failed more than max_failures times in a row.
C12_RetriesCallEngine ==
    \A n \in Nodes, t \in Tasks :
        /\ failures[n][t] <= calls[n][t]
        /\ taskPc[n][t] = "postGiveUp" => calls[n][t] > MaxFailures(t)

\* C14: the run loop never takes the status reporter's shutdown request, made
\* on a failover response, while the node's state is BACKUP.
C14_FailoverOnlyMaster ==
    \A n \in Nodes : failoverFrom[n] # HABackup

\* C13: when HAConfig returned a configuration that differs from the node's
\* own, the config checker posts an error, and once the run loop has taken it
\* Run has returned a non-nil error; a pending post is eventually taken and
\* Run returns a non-nil error; and when HAConfig returned the node's own
\* configuration the checker posts nothing and waits for its next tick.
C13_ConfigDriftIsFatal ==
    /\ [](\A n \in Nodes :
            /\ reply[n]["config"] = "flag"
                  => \/ taskPc[n]["config"] = "postChanged"
                     \/ taskPc[n]["config"] = "wait" /\ runResult[n] = "err"
            /\ reply[n]["config"] = "ok" => taskPc[n]["config"] = "wait"
            /\ taskPc[n]["config"] = "postChanged" => reply[n]["config"] = "flag")
    /\ [](taskPc[1]["config"] = "postChanged" => <>(runResult[1] = "err"))

\* C13 witness: the node, MASTER, was handed another configuration, the
\* checker's error was taken and Run returned it.
C13_Witness ==
    /\ reply[1]["config"] = "flag" /\ taskPc[1]["config"] = "wait"
    /\ runResult[1] = "err" /\ errFrom[1] = HAMaster

\* The checksum validation as the claims state it: the RFC 1071 checksum over
\* the pseudo-header of (src, dst) followed by the payload as received.
Recomputed(src, dst, payload) == ipChecksum(PseudoHeader(src, dst) \o payload)

\* This step is the transport reading a packet.
Reads == injected' = injected + 1

\* C15: for a packet readPacket returned, receive returns an advertisement
\* (the payload decoded) exactly if the payload has 8 bytes, the source is not
\* the local address, the TTL is 255 and the recomputed checksum is 0, and
\* otherwise none, never an error; a packet for which it returns none is not
\* counted as received and not enqueued.
C15_ReceiveValidates ==
    /\ [](IsPacket(lastPkt.read)
            => /\ ~IsError(lastPkt.result)
               /\ IsAdvert(lastPkt.result)
                     <=> /\ Len(lastPkt.read.payload) = 8
                         /\ ~IPEqual(lastPkt.read.src, lastPkt.local)
                         /\ lastPkt.read.ttl = 255
                         /\ Recomputed(lastPkt.read.src, lastPkt.read.dst, lastPkt.read.payload) = 0
               /\ IsAdvert(lastPkt.result) => Encode(lastPkt.result) = lastPkt.read.payload)
    /\ [][(Reads /\ lastPkt'.result = NoResult)
            => UNCHANGED <<receiveCount, recvChannel, runPc, runResult, exited>>]_vars

\* C15 witness: a packet with TTL 254, otherwise good, was read and dropped.
C15_Witness ==
    /\ IsPacket(lastPkt.read) /\ lastPkt.read.ttl = 254
    /\ Len(lastPkt.read.payload) = 8 /\ ~IPEqual(lastPkt.read.src, lastPkt.local)
    /\ Recomputed(lastPkt.read.src, lastPkt.read.dst, lastPkt.read.payload) = 0
    /\ lastPkt.result = NoResult /\ receiveCount[1] = 0 /\ recvChannel[1] = <<>>

\* C16: when readIPv4Packet rejects a datagram (shorter than 20 bytes, IP
\* version not 4, header length greater than the total length), receive
\* returns none, no error reaches the run loop, Run does not return an error
\* and the process lives.
C16_MalformedSuppressed ==
    (IsError(lastPkt.read) /\ ~lastPkt.read.ignorable)
        => /\ lastPkt.result = NoResult
           /\ errFrom[1] = "none"
           /\ runResult[1] # "err"
           /\ ~exited[1]

\* C17: a packet made by send from an advertisement with checksum field 0,
\* for endpoints (s, d) of one family, carries the checksum of that
\* advertisement for (s, d), its recomputed checksum for (s, d) is 0, and
\* receive returns it as an advertisement.
C17_ChecksumRoundTrip ==
    lastPkt.sent
        => /\ IsPacket(lastPkt.read)
           /\ Recomputed(lastPkt.read.src, lastPkt.read.dst, lastPkt.read.payload) = 0
           /\ IsAdvert(lastPkt.result)
           /\ [lastPkt.result EXCEPT !.Checksum = 0] \in SentAdverts
           /\ lastPkt.result.Checksum =
                  checksum([lastPkt.result EXCEPT !.Checksum = 0], lastPkt.read.src, lastPkt.read.dst)

\* C17 witness: an advertisement sent over IPv6 to the multicast group, with
\* advert_int 65535, was received and enqueued.
C17_Witness ==
    /\ lastPkt.sent /\ IsAdvert(lastPkt.result) /\ lastPkt.result.AdvertInt = 65535
    /\ lastPkt.read.dst = Mcast6 /\ lastPkt.result.Checksum # 0
    /\ receiveCount[1] = 1 /\ Len(recvChannel[1]) = 1

\* C18: a BACKUP run loop that leaves its select for becomeMaster while the
\* receive queue is not empty has taken the head of the queue and judged it by
\* the BACKUP rules (so a transition to MASTER by timeout alone happens only
\* with an empty queue); and an advertisement taken after the timer fired is
\* the head of the queue, judged by the BACKUP rules.
C18_QueuedBeforeTimeout ==
    [][\A n \in Nodes :
        /\ (state[n] = HABackup /\ runPc[n] = "select" /\ runPc'[n] = "bm_notify"
                /\ recvChannel[n] # <<>>)
              => /\ Dequeues(n)
                 /\ ~viaTimeout'[n]
                 /\ backupHandleAdvertisement(n, Head(recvChannel[n])) = HAMaster
        /\ (viaTimeout'[n] /\ ~viaTimeout[n]) => (recvChannel[n] = <<>> /\ now >= Deadline(n))
        /\ (runPc[n] = "select" /\ Dequeues(n) /\ lastHandled'[n].timer)
              => /\ state[n] = HABackup /\ now >= Deadline(n)
                 /\ lastHandled'[n].advert = Head(recvChannel[n])
                 /\ lastHandled'[n].to = backupHandleAdvertisement(n, Head(recvChannel[n]))
                 /\ runPc'[n] = runOnceNext(HABackup, lastHandled'[n].to)
       ]_vars

\* C18 witness: the timer had fired with an advertisement of the master in the
\* queue; the run loop took it in the timeout case and the node stayed BACKUP.
C18_Witness ==
    /\ lastHandled[1].timer /\ lastHandled[1].from = HABackup /\ lastHandled[1].to = HABackup
    /\ ~viaTimeout[1] /\ state[1] = HABackup /\ transitions[1] = 1
    /\ lastMasterAdvertTime[1] >= 3500

\* This step is the sender of n making a Send call for a tick of its ticker.
SendsPeriodic(n) ==
    /\ senderPc[n] = "select"
    /\ now >= tickAt[n]
    /\ sendCount'[n] # sendCount[n] \/ tickAt'[n] # tickAt[n]

\* C19: the sender makes its periodic Send calls only while the node's state
\* is MASTER; while the state is BACKUP no sender exists, except between the
\* go statement and the setState of becomeMaster, where it has not sent yet;
\* and a node that has never been MASTER has sent nothing.
C19_SendsOnlyAsMaster ==
    /\ [](\A n \in Nodes :
            /\ (state[n] = HABackup /\ senderPc[n] # "none") => runPc[n] = "bm_set"
            /\ state[n] # HAMaster => now < tickAt[n] \/ senderPc[n] # "select"
            /\ transitions[n] = 1 => sendCount[n] = 0)
    /\ [][\A n \in Nodes : SendsPeriodic(n) => state[n] = HAMaster]_vars

\* C19 witness: the node was MASTER and sent, went back to BACKUP, and time
\* has passed since with no sender.
C19_Witness ==
    /\ state[1] = HABackup /\ transitions[1] = 3 /\ runPc[1] = "select"
    /\ sendCount[1] >= 1 /\ senderPc[1] = "none" /\ senders[1] = 0
    /\ now >= lastMasterAdvertTime[1] + MasterAdvertInterval

\* C20: master_down_interval is 3*I + ((256 - priority)*I)/256, where I is
\* the configured master_advert_interval as long as no advertisement has been
\* handled, and advert_int * 10 ms of the advertisement just accepted in
\* BACKUP, for every advert_int in 0..65535.
C20_MasterDownFormula ==
    \A n \in Nodes :
        /\ lastHandled[n].from = "none"
              => masterDownInterval[n] = MasterDown(priority[n], MasterAdvertInterval)
        /\ (lastHandled[n].from = HABackup /\ backupAccepts(n, lastHandled[n].advert))
              => masterDownInterval[n] = MasterDown(priority[n], lastHandled[n].advert.AdvertInt * 10)

\* A call of conn.Receive or of the sender's periodic conn.Send returns an
\* error to a process that goes on running.
TransportFails(n) ==
    /\ transportErr'[n] # transportErr[n]
    /\ transportErr'[n].at \in {"tick", "receive"}

\* os.Exit(1) ends the process.
Aborts(n) == ~exited[n] /\ exited'[n]

\* C21 as stated: no error of conn.Receive in the receiver or of conn.Send in
\* the sender is dropped while the process keeps running.
C21_NoErrorDropped ==
    \A n \in Nodes : transportErr[n].outcome # "logged"

\* C21 (amended): an error of conn.Receive, or of the sender's periodic
\* conn.Send on a tick, is handed to the run loop exactly when the run loop is
\* waiting in its select, and Run then returns from the state it was in;
\* otherwise the process aborts.  The receiver and the sender go on without
\* blocking, and the only error that is merely logged is that of the final
\* priority-0 Send after a shutdown stop signal.
C21_ErrorHandedOrAbort ==
    /\ [](\A n \in Nodes :
            /\ transportErr[n].outcome = "logged" <=> transportErr[n].at = "final"
            /\ transportErr[n].outcome = "handed" => errFrom[n] # "none")
    /\ [][\A n \in Nodes :
            /\ Aborts(n) => runPc[n] # "select"
            /\ TransportFails(n)
                  => /\ runPc[n] = "select"
                     /\ transportErr'[n].outcome = "handed"
                     /\ errFrom'[n] = state[n]
                     /\ runPc'[n] = runOnceNext(state[n], HAError)
                     /\ runResult'[n] = runOnceResult(state[n], HAError)
                     /\ recvPc'[n] = recvPc[n]
                     /\ senderPc'[n] = senderPc[n]]_vars

\* C21 witness: a periodic Send failed while the run loop was waiting as
\* MASTER, and the run loop has the error.
C21_Witness ==
    /\ transportErr[1] = [at |-> "tick", outcome |-> "handed"]
    /\ errFrom[1] = HAMaster /\ senderPc[1] = "select" /\ ~exited[1]

\* The advertisement at the head of n's receive queue is one the claim calls
\* accepted as the master's: version_type 0x31, the node's VRID, and in BACKUP
\* a non-zero priority that does not make the node preempt, in MASTER a
\* priority higher than the node's own.
AcceptedAsMasters(n) ==
    LET a == Head(recvChannel[n])
    IN /\ ValidFor(a)
       /\ \/ state[n] = HABackup /\ a.Priority # 0
                                  /\ ~(preempt[n] /\ a.Priority < priority[n])
          \/ state[n] = HAMaster /\ a.Priority > priority[n]

StartsSender(n) == senders'[n] > senders[n]

\* C23: a node has at most one sender goroutine at any time; a sender is
\* started only when none exists, the previous one having taken the stop
\* signal, and while none exists the node makes no Send call.
C23_AtMostOneSender ==
    /\ [](\A n \in Nodes :
            /\ senders[n] \in {0, 1}
            /\ senders[n] = 0 <=> senderPc[n] = "none")
    /\ [][\A n \in Nodes :
            /\ StartsSender(n)
                  => senders[n] = 0 /\ senderPc[n] = "none" /\ state[n] = HABackup
            /\ (senderPc[n] = "none" /\ ~exited'[n])
                  => sendCount'[n] = sendCount[n] /\ zeroCalls'[n] = zeroCalls[n]]_vars

\* C23 witness: the node is MASTER for the second time, having been BACKUP in
\* between, and has sent as MASTER both times' worth of one sender.
C23_Witness ==
    /\ state[1] = HAMaster /\ transitions[1] = 4
    /\ senders[1] = 1 /\ senderPc[1] = "select" /\ sendCount[1] >= 1

----------------------------------------------------------------------------
(* One node with all its goroutines, in the time before its master-down   *)
(* timer can expire: the run loop, the sender, the receiver, the status    *)
(* reporter and the config checker.  A peer may release mastership         *)
(* (priority 0) or claim it (priority 200); the engine may fail, ask for a *)
(* failover (the Shutdown() call of this environment is reportStatus's)    *)
(* or hand out another configuration, which is all the config checker      *)
(* shows to the other goroutines; conn.Send and conn.Receive may return    *)
(* errors (every call returns).  The sender's select takes a stop signal   *)
(* that is offered to it: it is back at its select after every Send, where *)
(* the ticker is ready at most once per interval.                          *)

\* The clock's bound in this environment.
HandoffMaxTime == 1500

\* What a peer that gives up mastership sends.
ReleaseAdvert == Advert(vrrpVersionType, VRID, 0, 100)

StopHandoff(n) == BecomeBackupStop(n) \/ BecomeShutdownStop(n)

NextHandoff ==
    \/ RunStart(1)
    \/ LoopCheck(1)
    \/ DequeueAdvert(1)
    \/ TakeFailoverShutdown(1)
    \/ TakeTaskError(1, "status")
    \/ \E err \in BOOLEAN : BecomeMasterNotify(1, err)
    \/ BecomeMasterGo(1)
    \/ BecomeMasterSet(1)
    \/ \E err \in BOOLEAN : BecomeBackupNotify(1, err)
    \/ BecomeBackupSet(1)
    \/ \E err \in BOOLEAN : BecomeShutdownNotify(1, err)
    \/ BecomeShutdownWake(1)
    \/ BecomeShutdownSet(1)
    \/ StopHandoff(1)
    \/ \E ok \in BOOLEAN : SenderTick(1, ok, FALSE)
    \/ \E ok \in BOOLEAN : SendShutdownAdvert(1, ok, FALSE)
    \/ \E a \in {ReleaseAdvert, PeerAdvert} : ReceiveInjected(1, a)
    \/ ReceiveError(1)
    \/ \E r \in Replies : TaskTick(1, "status", r)
    \/ TaskTick(1, "config", "flag")
    \/ TakeTaskError(1, "config")
    \/ TaskRetry(1, "status")
    \/ Tick(HandoffMaxTime)

SpecHandoff == Init /\ [][NextHandoff]_vars /\ WF_vars(StopHandoff(1))

\* The run loop of n is blocked in n.stopSenderChannel <- newState.
AtStopHandoff(n) == runPc[n] \in {"bb_stop", "bs_stop"}

\* C24 as stated: the stop handoff of becomeBackup and becomeShutdown always
\* completes, that is, the run loop gets past its send on stopSenderChannel.
C24_HandoffCompletes ==
    \A n \in Nodes : AtStopHandoff(n) ~> runPc[n] \in {"bb_set", "bs_sleep"}

\* C24 (amended): while the run loop is at its send on stopSenderChannel a
\* sender exists and is in its for-select loop, and the run loop does not stay
\* there forever: either the sender takes the stop signal and the run loop
\* goes on, or the process is ended by os.Exit(1) because conn.Send or
\* conn.Receive returned an error meanwhile.
C24_HandoffCompletesOrAborts ==
    /\ [](\A n \in Nodes :
            AtStopHandoff(n) => senders[n] = 1 /\ senderPc[n] = "select")
    /\ \A n \in Nodes :
            AtStopHandoff(n) ~> (runPc[n] \in {"bb_set", "bs_sleep"} \/ exited[n])

\* C24 witness: becomeBackup has handed the stop signal to a sender that had
\* sent, while the status reporter is blocked in its Shutdown() call.
C24_Witness ==
    /\ runPc[1] = "bb_set" /\ senderPc[1] = "none" /\ sendCount[1] >= 1
    /\ taskPc[1]["status"] = "shutdown"

\* C25: once Run has returned, after a shutdown or after an error received
\* in MASTER, the node's sender makes no further periodic Send call with the
\* node's own priority.
C25_NoSendAfterReturn ==
    [][\A n \in Nodes :
          (runPc[n] = "returned" /\ ~exited'[n]) => sendCount'[n] = sendCount[n]]_vars

====
